---- MODULE Spec2Model ----
(***************************************************************************)
(* Cursor-paginated connections over an in-memory node store               *)
(* (src/src/main.rs): parse_id, Connection::new, the relationship          *)
(* resolvers Film::characters / Person::films and the Query root lookups.  *)
(*                                                                         *)
(* An identifier "https://swapi.dev/api/<cat>/<num>/" is the record        *)
(* [cat, num]; Malformed stands for every string parse_id rejects.         *)
(* Option<T> is a sequence of length at most one: None = <<>>, Some(x) =   *)
(* <<x>>.  A panic (unwrap, panic!, todo!) is a result with status "panic".*)
(***************************************************************************)
EXTENDS Integers, Sequences, FiniteSets, TLC

\* Largest numeric key of an identifier in the store.
MaxKey == 3
\* Longest relationship list.
MaxLen == 3

VARIABLES data, pc, req, res, client

vars == <<data, pc, req, res, client>>

None == <<>>
Some(x) == <<x>>
IsSome(o) == Len(o) > 0
Unwrap(o) == o[1]

----------------------------------------------------------------------------
\* Identifiers

Id(cat, num) == [cat |-> cat, num |-> num]
Malformed == [cat |-> "", num |-> -1]

NodeCategories == {"people", "films"}
UnitCategories == {"planets", "species", "starships", "vehicles"}
Keys == 1..MaxKey
StoreIds == {Id(c, n) : c \in NodeCategories, n \in Keys} \cup {Id(c, 1) : c \in UnitCategories}

\* The regex of parse_id matches and the digits parse as a u32.
WellFormed(id) == id.cat # "" /\ id.num >= 0

\* parse_id: the numeric segment of the identifier.  Only applied to
\* well-formed identifiers; the callers below turn the other case into a panic.
parse_id(id) == id.num

----------------------------------------------------------------------------
\* usize arithmetic.  A usize value is off + (IF wrap THEN 2^64 ELSE 0), which
\* represents exactly the values an i32 cast and one subtraction can produce.

UsizeOf(n) == [wrap |-> FALSE, off |-> n]

\* `x as usize` for an i32 x: sign extension, so a negative x becomes 2^64 + x.
AsUsize(x) == [wrap |-> x < 0, off |-> x]

\* usize::saturating_sub
SaturatingSub(a, b) ==
    IF a.wrap = b.wrap
    THEN UsizeOf(IF a.off > b.off THEN a.off - b.off ELSE 0)
    ELSE IF a.wrap THEN [wrap |-> TRUE, off |-> a.off - b.off]
    ELSE UsizeOf(0)

\* Mutant of Take: one item too many.
TakeInclusive(s, n) == IF n.wrap \/ n.off >= Len(s) THEN s ELSE SubSeq(s, 1, n.off + 1)

\* Iterator::take
Take(s, n) == IF n.wrap \/ n.off >= Len(s) THEN s ELSE SubSeq(s, 1, n.off)

\* Iterator::skip
Skip(s, n) == IF n.wrap \/ n.off >= Len(s) THEN <<>> ELSE SubSeq(s, n.off + 1, Len(s))

----------------------------------------------------------------------------
\* Connection::new

\* Mutant of KeepId: either bound is enough when both are given.
KeepIdEither(id, before, after) ==
    LET k == parse_id(id) IN
    IF IsSome(before) /\ IsSome(after) THEN k > Unwrap(after) \/ k < Unwrap(before)
    ELSE IF IsSome(before) THEN k < Unwrap(before)
    ELSE IF IsSome(after) THEN k > Unwrap(after)
    ELSE TRUE

\* Mutant of KeepId: the before bound is inclusive.
KeepIdBeforeInclusive(id, before, after) ==
    LET k == parse_id(id) IN
    IF IsSome(before) /\ IsSome(after) THEN k > Unwrap(after) /\ k <= Unwrap(before)
    ELSE IF IsSome(before) THEN k <= Unwrap(before)
    ELSE IF IsSome(after) THEN k > Unwrap(after)
    ELSE TRUE

\* Mutant of KeepId: the after bound is inclusive.
KeepIdAfterInclusive(id, before, after) ==
    LET k == parse_id(id) IN
    IF IsSome(before) /\ IsSome(after) THEN k >= Unwrap(after) /\ k < Unwrap(before)
    ELSE IF IsSome(before) THEN k < Unwrap(before)
    ELSE IF IsSome(after) THEN k >= Unwrap(after)
    ELSE TRUE

\* The closure given to filter(): before and after are Option<u32>.
KeepId(id, before, after) ==
    LET k == parse_id(id) IN
    IF IsSome(before) /\ IsSome(after) THEN k > Unwrap(after) /\ k < Unwrap(before)
    ELSE IF IsSome(before) THEN k < Unwrap(before)
    ELSE IF IsSome(after) THEN k > Unwrap(after)
    ELSE TRUE

\* ids.iter().filter(..).collect()
FilterIds(ids, before, after) == SelectSeq(ids, LAMBDA id : KeepId(id, before, after))

EmptyPageInfo ==
    [has_previous_page |-> FALSE, has_next_page |-> FALSE,
     start_cursor |-> None, end_cursor |-> None]

TakeLength(first, n) == IF IsSome(first) THEN AsUsize(Unwrap(first)) ELSE UsizeOf(n)

SkipLength(last, take_length) ==
    IF IsSome(last) THEN SaturatingSub(take_length, AsUsize(Unwrap(last))) ELSE UsizeOf(0)

\* edges.into_iter().take(take_length).skip(skip_length): the identifiers
\* that reach map(load).  The adaptors are lazy: nothing else is loaded.
Window(cand, first, last) ==
    LET take_length == TakeLength(first, Len(cand))
        skip_length == SkipLength(last, take_length)
    IN Skip(Take(cand, take_length), skip_length)

\* map(|id| load(id)).collect(): load is a function from identifier to
\* [ok, node]; the first panicking load ends the iteration.
FirstFailure(win, load) ==
    LET bad == {i \in 1..Len(win) : ~load[win[i]].ok}
    IN IF bad = {} THEN 0 ELSE CHOOSE i \in bad : \A j \in bad : i <= j

\* The identifiers load was called with, in call order.
LoadCalls(win, load) ==
    LET f == FirstFailure(win, load) IN IF f = 0 THEN win ELSE SubSeq(win, 1, f)

\* Mutant of PageInfoOf: the next-page comparison is not strict.
PageInfoOfInclusive(nodes, first_id, last_id) ==
    LET n == Len(nodes) IN
    [has_previous_page |-> IF n > 0 THEN parse_id(nodes[1].id) > first_id ELSE FALSE,
     has_next_page |-> IF n > 0 THEN parse_id(nodes[n].id) <= last_id ELSE FALSE,
     start_cursor |-> IF n > 0 THEN Some(nodes[1].id) ELSE None,
     end_cursor |-> IF n > 0 THEN Some(nodes[n].id) ELSE None]

\* Lines 245-262: the flags compare the page's first and last key with the
\* candidate window's; the cursors are the first and last node's own id.
PageInfoOf(nodes, first_id, last_id) ==
    LET n == Len(nodes) IN
    [has_previous_page |-> IF n > 0 THEN parse_id(nodes[1].id) > first_id ELSE FALSE,
     has_next_page |-> IF n > 0 THEN parse_id(nodes[n].id) < last_id ELSE FALSE,
     start_cursor |-> IF n > 0 THEN Some(nodes[1].id) ELSE None,
     end_cursor |-> IF n > 0 THEN Some(nodes[n].id) ELSE None]

\* Mutant of EdgesOf: every edge carries the first node's cursor.
EdgesOfFirstCursor(nodes) ==
    [i \in 1..Len(nodes) |-> [cursor |-> nodes[1].id, node |-> Some(nodes[i])]]

EdgesOf(nodes) == [i \in 1..Len(nodes) |-> [cursor |-> nodes[i].id, node |-> Some(nodes[i])]]

Panicked(calls) == [status |-> "panic", edges |-> <<>>, page_info |-> EmptyPageInfo, loads |-> calls]

\* take/skip/map(load)/collect, then the page info and the edges.
Collect(cand, win, load) ==
    IF FirstFailure(win, load) # 0
    THEN Panicked(LoadCalls(win, load))
    ELSE LET nodes == [i \in 1..Len(win) |-> load[win[i]].node]
         IN [status |-> "ok", edges |-> EdgesOf(nodes),
             page_info |-> PageInfoOf(nodes, parse_id(cand[1]), parse_id(cand[Len(cand)])),
             loads |-> LoadCalls(win, load)]

\* Mutant of ConnectionNew: map(load) runs before take and skip, so the whole
\* candidate window is loaded.
ConnectionNewEager(ids, load, after, first, before, last) ==
    IF (IsSome(before) /\ ~WellFormed(Unwrap(before)))
       \/ (IsSome(after) /\ ~WellFormed(Unwrap(after)))
       \/ (\E i \in 1..Len(ids) : ~WellFormed(ids[i]))
    THEN Panicked(<<>>)
    ELSE
    LET b == IF IsSome(before) THEN Some(parse_id(Unwrap(before))) ELSE None
        a == IF IsSome(after) THEN Some(parse_id(Unwrap(after))) ELSE None
        cand == FilterIds(ids, b, a)
    IN IF cand = <<>>
       THEN [status |-> "ok", edges |-> <<>>, page_info |-> EmptyPageInfo, loads |-> <<>>]
       ELSE IF FirstFailure(cand, load) # 0
       THEN Panicked(LoadCalls(cand, load))
       ELSE [Collect(cand, Window(cand, first, last), load) EXCEPT !.loads = cand]

\* parse_id panics on a malformed before, after or list identifier.
ConnectionNew(ids, load, after, first, before, last) ==
    IF (IsSome(before) /\ ~WellFormed(Unwrap(before)))
       \/ (IsSome(after) /\ ~WellFormed(Unwrap(after)))
       \/ (\E i \in 1..Len(ids) : ~WellFormed(ids[i]))
    THEN Panicked(<<>>)
    ELSE
    LET b == IF IsSome(before) THEN Some(parse_id(Unwrap(before))) ELSE None
        a == IF IsSome(after) THEN Some(parse_id(Unwrap(after))) ELSE None
        cand == FilterIds(ids, b, a)
    IN IF cand = <<>>
       THEN [status |-> "ok", edges |-> <<>>, page_info |-> EmptyPageInfo, loads |-> <<>>]
       ELSE Collect(cand, Window(cand, first, last), load)

----------------------------------------------------------------------------
\* The store (Context.data) and the node types

Person(id, films) == [type |-> "Person", id |-> id, films |-> films]
Film(id, characters) == [type |-> "Film", id |-> id, characters |-> characters]
Unit(type) == [type |-> type]

UnitOf(cat) ==
    IF cat = "planets" THEN Unit("Planet")
    ELSE IF cat = "species" THEN Unit("Species")
    ELSE IF cat = "starships" THEN Unit("Starship")
    ELSE Unit("Vehicle")

\* BTreeMap::get: the record stored under the identifier string, if any.
Get(store, id) == IF id \in DOMAIN store THEN store[id] ELSE None

\* The closure Film::characters gives to Connection::new.
LoadPerson(store, id) ==
    LET r == Get(store, id) IN
    IF IsSome(r) /\ Unwrap(r).type = "Person"
    THEN [ok |-> TRUE, node |-> Unwrap(r)]
    ELSE [ok |-> FALSE, node |-> Unit("panic")]

\* The closure Person::films gives to Connection::new.
LoadFilm(store, id) ==
    LET r == Get(store, id) IN
    IF IsSome(r) /\ Unwrap(r).type = "Film"
    THEN [ok |-> TRUE, node |-> Unwrap(r)]
    ELSE [ok |-> FALSE, node |-> Unit("panic")]

Film_characters(store, self, after, first, before, last) ==
    ConnectionNew(self.characters, [id \in StoreIds |-> LoadPerson(store, id)],
                  after, first, before, last)

Person_films(store, self, after, first, before, last) ==
    ConnectionNew(self.films, [id \in StoreIds |-> LoadFilm(store, id)],
                  after, first, before, last)

\* impl From<NodeJson> for NodeValue: todo!() for every other variant.
NodeValueFrom(json) ==
    IF json.type \in {"Film", "Person"}
    THEN [status |-> "ok", value |-> Some(json)]
    ELSE [status |-> "panic", value |-> None]

Query_node(store, id) ==
    LET r == Get(store, id) IN
    IF IsSome(r) THEN NodeValueFrom(Unwrap(r)) ELSE [status |-> "ok", value |-> None]

Query_film(store, id) ==
    LET n == Query_node(store, id) IN
    IF n.status = "ok" /\ IsSome(n.value) /\ Unwrap(n.value).type # "Film"
    THEN [status |-> "ok", value |-> None]
    ELSE n

Query_person(store, id) ==
    LET n == Query_node(store, id) IN
    IF n.status = "ok" /\ IsSome(n.value) /\ Unwrap(n.value).type # "Person"
    THEN [status |-> "ok", value |-> None]
    ELSE n

----------------------------------------------------------------------------
\* The datasets the model starts from: film 1 lists the characters People(rel)
\* and person 1 the films Films(rel); the records of key MaxKey may be missing
\* or of the other node type; one record of each category without a node type.

RECURSIVE SeqsUpTo(_, _)
SeqsUpTo(S, n) ==
    IF n = 0 THEN {<<>>}
    ELSE LET shorter == SeqsUpTo(S, n - 1)
         IN shorter \cup {Append(s, x) : s \in {t \in shorter : Len(t) = n - 1}, x \in S}

\* A relationship names each node at most once, in any order.
RelLists ==
    {s \in SeqsUpTo(Keys, MaxLen) : \A i, j \in 1..Len(s) : i # j => s[i] # s[j]}
Faults == {"none", "absent", "wrongtype"}

People(rel) == [i \in 1..Len(rel) |-> Id("people", rel[i])]
Films(rel) == [i \in 1..Len(rel) |-> Id("films", rel[i])]

RecordAt(id, rel, fault) ==
    LET person == Person(id, IF id.num = 1 THEN Films(rel) ELSE <<>>)
        film == Film(id, IF id.num = 1 THEN People(rel) ELSE <<>>)
        faulty == id.num = MaxKey /\ fault # "none"
    IN IF id.cat \in UnitCategories THEN Some(UnitOf(id.cat))
       ELSE IF faulty /\ fault = "absent" THEN None
       ELSE IF (id.cat = "people") = (faulty /\ fault = "wrongtype") THEN Some(film)
       ELSE Some(person)

\* The entries of data.json: a BTreeMap holds no entry for an absent identifier.
Store(rel, fault) ==
    LET present == {id \in StoreIds : IsSome(RecordAt(id, rel, fault))}
    IN [id \in present |-> Some(Unwrap(RecordAt(id, rel, fault)))]

RootFilm == Id("films", 1)
RootPerson == Id("people", 1)

----------------------------------------------------------------------------
\* Requests

FirstLastArgs == {None} \cup {Some(n) : n \in -1..(MaxLen + 1)}

\* No cursor, a cursor of the list's own category, or one of the other
\* category (never a member of the list).
CursorArgs(cat, other) ==
    {None, Some(Id(other, MaxKey - 1))} \cup {Some(Id(cat, n)) : n \in Keys}

\* <<after, before>>: any two such cursors, or one that parse_id rejects.
CursorPairs(cat, other) ==
    (CursorArgs(cat, other) \X CursorArgs(cat, other))
        \cup {<<Some(Malformed), None>>, <<None, Some(Malformed)>>,
              <<Some(Malformed), Some(Id(cat, 1))>>, <<Some(Id(cat, 1)), Some(Malformed)>>}
LookupIds == StoreIds \cup {Malformed, Id("people", MaxKey + 1)}

NoReq == [op |-> "none", self |-> None, after |-> None, first |-> None,
          before |-> None, last |-> None]
NoRes == [status |-> "none"]
NoClient == [state |-> "off", op |-> "none", k |-> 0, seen |-> <<>>, pages |-> 0]

Init ==
    /\ \E rel \in RelLists, fault \in Faults : data = Store(rel, fault)
    /\ pc = "idle"
    /\ req = NoReq
    /\ res = NoRes
    /\ client = NoClient

\* A query resolves film(id: RootFilm) { characters(after, first, before, last) }.
FilmCharacters ==
    /\ pc = "idle"
    /\ IsSome(Query_film(data, RootFilm).value)
    /\ \E cursors \in CursorPairs("people", "films"),
          first \in FirstLastArgs, last \in FirstLastArgs :
        /\ req' = [op |-> "characters", self |-> Some(RootFilm), after |-> cursors[1],
                   first |-> first, before |-> cursors[2], last |-> last]
        /\ res' = Film_characters(data, Unwrap(Query_film(data, RootFilm).value),
                                  cursors[1], first, cursors[2], last)
    /\ pc' = "done"
    /\ UNCHANGED <<data, client>>

\* A query resolves person(id: RootPerson) { films(after, first, before, last) }.
PersonFilms ==
    /\ pc = "idle"
    /\ IsSome(Query_person(data, RootPerson).value)
    /\ \E cursors \in CursorPairs("films", "people"),
          first \in FirstLastArgs, last \in FirstLastArgs :
        /\ req' = [op |-> "films", self |-> Some(RootPerson), after |-> cursors[1],
                   first |-> first, before |-> cursors[2], last |-> last]
        /\ res' = Person_films(data, Unwrap(Query_person(data, RootPerson).value),
                               cursors[1], first, cursors[2], last)
    /\ pc' = "done"
    /\ UNCHANGED <<data, client>>

QueryFilm ==
    /\ pc = "idle"
    /\ \E id \in LookupIds :
        /\ req' = [NoReq EXCEPT !.op = "film", !.self = Some(id)]
        /\ res' = Query_film(data, id)
    /\ pc' = "done"
    /\ UNCHANGED <<data, client>>

QueryPerson ==
    /\ pc = "idle"
    /\ \E id \in LookupIds :
        /\ req' = [NoReq EXCEPT !.op = "person", !.self = Some(id)]
        /\ res' = Query_person(data, id)
    /\ pc' = "done"
    /\ UNCHANGED <<data, client>>

QueryNode ==
    /\ pc = "idle"
    /\ \E id \in LookupIds :
        /\ req' = [NoReq EXCEPT !.op = "node", !.self = Some(id)]
        /\ res' = Query_node(data, id)
    /\ pc' = "done"
    /\ UNCHANGED <<data, client>>

\* The request is over: its Connection does not outlive it.
Return ==
    /\ pc = "done"
    /\ pc' = "idle"
    /\ req' = NoReq
    /\ res' = NoRes
    /\ UNCHANGED <<data, client>>

Next ==
    \/ FilmCharacters
    \/ PersonFilms
    \/ QueryFilm
    \/ QueryPerson
    \/ QueryNode
    \/ Return

----------------------------------------------------------------------------
\* A client that pages forward through one relationship: first = k and no
\* cursor, then first = k and after = the last endCursor while hasNextPage.

PageSizes == 1..(MaxLen + 1)

Page(op, after, k) ==
    IF op = "characters"
    THEN Film_characters(data, Unwrap(data[RootFilm]), after, Some(k), None, None)
    ELSE Person_films(data, Unwrap(data[RootPerson]), after, Some(k), None, None)

Cursors(edges) == [i \in 1..Len(edges) |-> edges[i].cursor]

Received(op, after, page) ==
    /\ req' = [op |-> op, self |-> Some(IF op = "characters" THEN RootFilm ELSE RootPerson),
               after |-> after, first |-> Some(client.k), before |-> None, last |-> None]
    /\ res' = page
    /\ client' = [client EXCEPT
                    !.seen = @ \o Cursors(page.edges),
                    !.pages = @ + 1,
                    !.state = IF page.status # "ok" THEN "aborted"
                              ELSE IF page.page_info.has_next_page THEN "more"
                              ELSE "done"]
    /\ pc' = "done"
    /\ UNCHANGED data

FirstPage ==
    /\ client.state = "start"
    /\ Received(client.op, None, Page(client.op, None, client.k))

\* No list of the model has more than MaxLen pages: the guard only stops a
\* client that would page forever.
NextPage ==
    /\ client.state = "more"
    /\ client.pages <= MaxLen
    /\ Received(client.op, res.page_info.end_cursor,
                Page(client.op, res.page_info.end_cursor, client.k))

\* The datasets of the traversal are consistent: every relationship
\* identifier resolves to a record of the target type.
InitTraverse ==
    /\ \E rel \in RelLists : data = Store(rel, "none")
    /\ pc = "idle"
    /\ req = NoReq
    /\ res = NoRes
    /\ \E op \in {"characters", "films"}, k \in PageSizes :
         client = [state |-> "start", op |-> op, k |-> k, seen |-> <<>>, pages |-> 0]

NextTraverse == FirstPage \/ NextPage

\* The client of the claim keeps asking while hasNextPage holds.
SpecTraverse == InitTraverse /\ [][NextTraverse]_vars /\ WF_vars(NextTraverse)

Spec == Init /\ [][Next]_vars

----------------------------------------------------------------------------
\* What the properties below speak of, stated from the request and the store
\* alone.

IsConn == pc = "done" /\ req.op \in {"characters", "films"}
IsLookup == pc = "done" /\ req.op \in {"film", "person"}

\* The relationship list the resolver was called on.
ReqIds ==
    IF req.op = "characters" THEN Unwrap(data[RootFilm]).characters
    ELSE Unwrap(data[RootPerson]).films

KeyOf(id) == id.num
CursorOk(c) == c = None \/ (Unwrap(c).cat # "" /\ Unwrap(c).num >= 0)
CursorsOk == CursorOk(req.after) /\ CursorOk(req.before)

InBounds(id) ==
    /\ IsSome(req.after) => KeyOf(id) > KeyOf(Unwrap(req.after))
    /\ IsSome(req.before) => KeyOf(id) < KeyOf(Unwrap(req.before))

\* The candidate window: the list filtered by the key bounds.
Candidate == SelectSeq(ReqIds, InBounds)

EdgeIds == [i \in 1..Len(res.edges) |-> res.edges[i].cursor]

Min(x, y) == IF x < y THEN x ELSE y
Max(x, y) == IF x > y THEN x ELSE y
NonNegative(o) == o = None \/ Unwrap(o) >= 0
Negative(o) == IsSome(o) /\ Unwrap(o) < 0

\* The record a relationship identifier must resolve to.
Resolves(id) ==
    /\ id \in DOMAIN data
    /\ Unwrap(data[id]).type = (IF req.op = "characters" THEN "Person" ELSE "Film")

IsRun(s, t) == \E i \in 1..(Len(t) + 1), j \in 0..Len(t) : s = SubSeq(t, i, j)

\* The same resolver with other cursors.
Resolve(after, before) ==
    IF req.op = "characters"
    THEN Film_characters(data, Unwrap(data[RootFilm]), after, req.first, before, req.last)
    ELSE Person_films(data, Unwrap(data[RootPerson]), after, req.first, before, req.last)

\* The cursor of the same key in the other relationship's identifier space.
SameKey(c) ==
    IF c = None THEN None
    ELSE Some(Id(IF Unwrap(c).cat = "people" THEN "films" ELSE "people", KeyOf(Unwrap(c))))

----------------------------------------------------------------------------
\* C1: with first >= 0 and last >= 0, the returned edges are the candidate
\* window cut to its first min(first, |candidate|) items (takeLen of them),
\* then with max(takeLen - last, 0) items dropped from the front.
C1_ForwardLen == IF IsSome(req.first) THEN Min(Unwrap(req.first), Len(Candidate)) ELSE Len(Candidate)
C1_Dropped == IF IsSome(req.last) THEN Max(C1_ForwardLen - Unwrap(req.last), 0) ELSE 0
C1_SlicedAsSpecified ==
    (IsConn /\ res.status = "ok" /\ NonNegative(req.first) /\ NonNegative(req.last))
        => EdgeIds = SubSeq(Candidate, C1_Dropped + 1, C1_ForwardLen)

\* C2: hasPreviousPage holds exactly when the returned window is non-empty and
\* its first key is greater than the candidate window's first key;
\* hasNextPage exactly when it is non-empty and its last key is less than the
\* candidate window's last key.
C2_PageFlags ==
    (IsConn /\ res.status = "ok") =>
        /\ res.page_info.has_previous_page
             = (EdgeIds # <<>> /\ KeyOf(EdgeIds[1]) > KeyOf(Candidate[1]))
        /\ res.page_info.has_next_page
             = (EdgeIds # <<>> /\ KeyOf(EdgeIds[Len(EdgeIds)]) < KeyOf(Candidate[Len(Candidate)]))

\* A page strictly inside its candidate window: both flags set.
C2_Witness ==
    /\ IsConn /\ res.status = "ok"
    /\ res.page_info.has_previous_page /\ res.page_info.has_next_page

\* C3: a negative first or last ends the call before any slicing: no
\* Connection with edges is returned and nothing is loaded.
C3_NegativeRejected ==
    (IsConn /\ (Negative(req.first) \/ Negative(req.last)))
        => (res.edges = <<>> /\ res.loads = <<>>)

\* C4: Query::film and Query::person never fail; they return Some exactly for
\* a record of the requested type and None for an absent identifier or a
\* record of any other type.
C4_Wanted == IF req.op = "film" THEN "Film" ELSE "Person"
C4_TypedLookupTotal ==
    IsLookup =>
        LET id == Unwrap(req.self)
            hit == id \in DOMAIN data /\ Unwrap(data[id]).type = C4_Wanted
        IN /\ res.status = "ok"
           /\ res.value = (IF hit THEN data[id] ELSE None)

\* C5: the returned identifiers are a contiguous run, in order, of the list
\* filtered by the key bounds, and only the key of a cursor counts: any
\* cursor with the same key gives the same result.
C5_ContiguousByKey ==
    (IsConn /\ CursorsOk) =>
        /\ res.status = "ok" => IsRun(EdgeIds, Candidate)
        /\ Resolve(SameKey(req.after), SameKey(req.before)) = res

\* A cursor that names no member of the list bounds a non-empty page.
C5_Witness ==
    /\ IsConn /\ res.status = "ok"
    /\ IsSome(req.after)
    /\ \A i \in 1..Len(ReqIds) : ReqIds[i] # Unwrap(req.after)
    /\ Len(res.edges) > 0
    /\ Len(Candidate) < Len(ReqIds)

\* C6 as stated: first = 0 or last = 0 on a non-empty candidate window gives
\* no edges and a pageInfo that differs from the empty-window pageInfo.
C6_ZeroDistinguishable ==
    (IsConn /\ res.status = "ok" /\ Candidate # <<>>
        /\ (req.first = Some(0) \/ req.last = Some(0)))
        => (res.edges = <<>> /\ res.page_info # EmptyPageInfo)

\* C6 amended: first = 0 or last = 0 on a non-empty candidate window gives no
\* edges, loads nothing, and the pageInfo {false, false, None, None}: the
\* same as for an empty candidate window.
C6_ZeroIsEmpty ==
    (IsConn /\ CursorsOk /\ Candidate # <<>>
        /\ (req.first = Some(0) \/ req.last = Some(0)))
        => (res.status = "ok" /\ res.edges = <<>> /\ res.loads = <<>>
            /\ res.page_info = EmptyPageInfo)

C6_Witness ==
    /\ IsConn /\ res.status = "ok"
    /\ Len(Candidate) > 1
    /\ req.last = Some(0) /\ req.first = Some(1)
    /\ res.edges = <<>>

\* C7: when no identifier satisfies the key bounds, whatever first and last,
\* the result has no edges, both flags false and both cursors None, and
\* nothing is loaded.
C7_EmptyCandidate ==
    (IsConn /\ CursorsOk /\ Candidate = <<>>)
        => res = [status |-> "ok", edges |-> <<>>, page_info |-> EmptyPageInfo, loads |-> <<>>]

\* A non-empty list whose identifiers the bounds all exclude, with a
\* negative first.
C7_Witness ==
    /\ IsConn /\ CursorsOk
    /\ Candidate = <<>> /\ Len(ReqIds) > 1
    /\ Negative(req.first) /\ IsSome(req.last)
    /\ res.status = "ok"

C10_TakeLen == IF IsSome(req.first) THEN Unwrap(req.first) ELSE Len(Candidate)
C10_InWindow(i) ==
    /\ i <= C10_TakeLen
    /\ IsSome(req.last) => i > C10_TakeLen - Unwrap(req.last)
C10_Positions == {i \in 1..Len(Candidate) : C10_InWindow(i)}
C10_Lo == IF C10_Positions = {} THEN 1 ELSE CHOOSE i \in C10_Positions : \A j \in C10_Positions : i <= j
C10_FinalWindow == SubSeq(Candidate, C10_Lo, C10_Lo + Cardinality(C10_Positions) - 1)
C10_Broken == {i \in 1..Len(C10_FinalWindow) : ~Resolves(C10_FinalWindow[i])}
C10_LoadsOnlyWindow ==
    (IsConn /\ CursorsOk) =>
        /\ res.status = "ok" => (EdgeIds = res.loads /\ IsRun(res.loads, Candidate))
        /\ res.status = "panic" =>
             /\ res.loads # <<>> /\ IsRun(res.loads, Candidate)
             /\ \A i \in 1..Len(res.loads) : Resolves(res.loads[i]) = (i < Len(res.loads))
        /\ (NonNegative(req.first) /\ NonNegative(req.last)) =>
             /\ (res.status = "ok") = (C10_Broken = {})
             /\ res.status = "ok" => res.loads = C10_FinalWindow
             /\ res.status = "panic" =>
                  \E i \in C10_Broken :
                     /\ \A j \in C10_Broken : i <= j
                     /\ res.loads = SubSeq(C10_FinalWindow, 1, i)

\* A list with an unresolvable identifier outside the final window is served.
C10_Witness ==
    /\ IsConn /\ res.status = "ok"
    /\ \E i \in 1..Len(Candidate) : ~Resolves(Candidate[i])
    /\ Len(res.loads) > 1
    /\ Len(res.loads) < Len(Candidate)

\* C9: on a list whose keys strictly increase, paging forward with any page
\* size k >= 1 ends with a page whose hasNextPage is false, and the pages
\* received are together the whole list, each identifier once and in order.
ClientList ==
    IF client.op = "characters" THEN Unwrap(data[RootFilm]).characters
    ELSE Unwrap(data[RootPerson]).films
StrictlyIncreasing(ids) == \A i \in 1..(Len(ids) - 1) : KeyOf(ids[i]) < KeyOf(ids[i + 1])
C9_TraversalComplete ==
    StrictlyIncreasing(ClientList) =>
        /\ <>(client.state = "done")
        /\ [](client.state = "done" => client.seen = ClientList)

\* A traversal of a full-length list in more than one page has ended.
C9_Witness ==
    /\ client.state = "done"
    /\ StrictlyIncreasing(ClientList)
    /\ Len(ClientList) = MaxLen
    /\ client.pages > 1
    /\ client.seen = ClientList

\* The page guard of NextPage never stops a client.
PagesBounded == client.state = "more" => client.pages <= Len(ClientList) /\ client.pages <= MaxLen

====
